---- MODULE Spec2Model ----
(***************************************************************************)
(* Elevator car controller (CANModule.cpp / ElevatorController.cpp).       *)
(*                                                                         *)
(* The main loop polls two flags set by interrupts (bus message pending,   *)
(* transmit timer tick), services the receive path and the transmit path,  *)
(* runs one distance-sample -> drive-command step (Move) and re-estimates  *)
(* the current floor (checkCurrentFloor).                                  *)
(*                                                                         *)
(* The numeric constants of CANModule.h / ElevatorController.h are not     *)
(* part of the source file; the values used here are representative ones   *)
(* that respect the constraints the source states (line 249: Floor 1 is    *)
(* above MINHEIGHT and Floor 3 is below MAXHEIGHT).                        *)
(***************************************************************************)
EXTENDS Integers, FiniteSets, Sequences, TLC

----------------------------------------------------------------------------
(* Constants of the headers.                                               *)

FLOOR1 == 5
FLOOR2 == 6
FLOOR3 == 7

FLOOR1_SP == 100
FLOOR2_SP == 400
FLOOR3_SP == 700

MINHEIGHT == 40
MAXHEIGHT == 800

SETPOINT_TOLERANCE == 5

\* gain, damping factor and reference span of the shaping curve
A == 20
DAMPENER == 3
diffMax == 600

(* Constants written in the source file.                                   *)

\* largest value the DAC accepts (line 241)
DAC_MAX == 1023
\* extra half-width of a floor's band in checkCurrentFloor (line 256)
MARGIN == 10
\* m_currentFloor before any band has matched (line 163)
Unknown == 0

----------------------------------------------------------------------------
(* Bounds of the model.                                                    *)

\* sensor readings are probed up to Probe beyond each limit of the valid range
Probe == 1
\* number of payload bytes above FLOOR3 that are none of the floor codes
NOther == 1
\* longest data field of a received frame that the model distinguishes
MaxLen == 1
\* interrupts of each kind that SpecCount follows
MaxSignals == 2

----------------------------------------------------------------------------
(* Arithmetic helpers.                                                     *)

Abs(x) == IF x < 0 THEN -x ELSE x

\* 16-bit int of the AVR target: wrap an integer into -32768..32767
ToInt16(x) == LET m == x % 65536 IN IF m >= 32768 THEN m - 65536 ELSE m

\* fixed-point unit used to evaluate exp()
ONE == 128 * 128

\* exp(-n/d) in units of 1/ONE, for 0 <= n/d < 8: Taylor series of
\* exp(-y), y = n/(16 d), followed by four squarings
ExpNeg(n, d) ==
    LET y  == (n * ONE) \div (16 * d)
        y2 == (y * y) \div ONE
        y3 == (y2 * y) \div ONE
        y4 == (y3 * y) \div ONE
        e0 == ONE - y + (y2 \div 2) - (y3 \div 6) + (y4 \div 24)
        e1 == (e0 * e0) \div ONE
        e2 == (e1 * e1) \div ONE
        e3 == (e2 * e2) \div ONE
    IN  (e3 * e3) \div ONE

\* float -> int conversion truncates toward zero
TruncDiv(n, d) == IF n >= 0 THEN n \div d ELSE -((-n) \div d)

----------------------------------------------------------------------------
(* Lookup of CANModule::receiveCAN.                                        *)

FloorCodes == {FLOOR1, FLOOR2, FLOOR3}
Setpoints  == {FLOOR1_SP, FLOOR2_SP, FLOOR3_SP}
Labels     == {"Floor 1", "Floor 2", "Floor 3"}

\* payload bytes the model distinguishes: the floor codes, 0 and some others
OtherBytes == {FLOOR3 + k : k \in 1..NOther}
Bytes == {0} \cup FloorCodes \cup OtherBytes

SetpointOf(f) == CASE f = FLOOR1 -> FLOOR1_SP
                   [] f = FLOOR2 -> FLOOR2_SP
                   [] f = FLOOR3 -> FLOOR3_SP

\* variant of LabelOf with the text of floor 2 in the branch of floor 3
LabelOfCopied(f) == CASE f = FLOOR1 -> "Floor 1"
                      [] f = FLOOR2 -> "Floor 2"
                      [] f = FLOOR3 -> "Floor 2"

LabelOf(f) == CASE f = FLOOR1 -> "Floor 1"
                [] f = FLOOR2 -> "Floor 2"
                [] f = FLOOR3 -> "Floor 3"

----------------------------------------------------------------------------
(* ElevatorController::Move, lines 215-251.                                *)

\* variant of InRange without the upper limit
InRangeNoUpper(d) == d > MINHEIGHT

\* line 223: the reading is used only strictly inside (MINHEIGHT, MAXHEIGHT)
InRange(d) == d > MINHEIGHT /\ d < MAXHEIGHT

\* variant of DeadBand that excludes the tolerance itself
DeadBandStrict(diff) == IF Abs(diff) < SETPOINT_TOLERANCE THEN 0 ELSE diff

\* lines 231-233: dead band around the setpoint
DeadBand(diff) == IF Abs(diff) <= SETPOINT_TOLERANCE THEN 0 ELSE diff

\* lines 236-238: difference * A * exp(-a * abs(difference)), a = DAMPENER/diffMax,
\* converted back to int
Shape(diff) ==
    ToInt16(TruncDiv(diff * A * ExpNeg(DAMPENER * Abs(diff), diffMax), ONE))

\* lines 241-243: only the upper side is limited
Clamp(x) == IF x > DAC_MAX THEN DAC_MAX ELSE x

\* the value Move hands to DM.transferDAC for reading d and setpoint sp
DriveCommand(d, sp) ==
    IF InRange(d)
    THEN Clamp(Shape(DeadBand(ToInt16(d - sp))))
    ELSE 0

----------------------------------------------------------------------------
(* ElevatorController::checkCurrentFloor, lines 253-265.                   *)

\* variant of InBand that excludes both ends of the band
InBandOpen(d, sp) ==
    /\ d > sp - (SETPOINT_TOLERANCE + MARGIN)
    /\ d < sp + (SETPOINT_TOLERANCE + MARGIN)

\* variant of InBand without the lower limit
InBandUpperOnly(d, sp) == d <= sp + (SETPOINT_TOLERANCE + MARGIN)

\* lines 256, 258, 260: the band of the floor whose setpoint is sp
InBand(d, sp) ==
    /\ d >= sp - (SETPOINT_TOLERANCE + MARGIN)
    /\ d <= sp + (SETPOINT_TOLERANCE + MARGIN)

\* variant of EstimateFloor that reports Unknown between floors
EstimateFloorReset(d, prev) ==
    IF InBand(d, FLOOR1_SP) THEN FLOOR1
    ELSE IF InBand(d, FLOOR2_SP) THEN FLOOR2
    ELSE IF InBand(d, FLOOR3_SP) THEN FLOOR3
    ELSE Unknown

\* lines 256-264: first matching band, otherwise the last known floor
EstimateFloor(d, prev) ==
    IF InBand(d, FLOOR1_SP) THEN FLOOR1
    ELSE IF InBand(d, FLOOR2_SP) THEN FLOOR2
    ELSE IF InBand(d, FLOOR3_SP) THEN FLOOR3
    ELSE prev

----------------------------------------------------------------------------
(* Sensor readings the model draws from: both sides of every threshold the *)
(* code compares a reading with, and the peak of the shaping curve on both *)
(* sides of every setpoint.                                                *)

PeakOff == diffMax \div DAMPENER

\* the last reading inside and the first reading outside an interval lo..hi
Edges(lo, hi) == {lo - 1, lo, hi, hi + 1}

Samples ==
    LET around == UNION {Edges(sp - SETPOINT_TOLERANCE, sp + SETPOINT_TOLERANCE)
                         \cup Edges(sp - (SETPOINT_TOLERANCE + MARGIN),
                                    sp + (SETPOINT_TOLERANCE + MARGIN))
                         \cup {sp - PeakOff, sp + PeakOff} : sp \in Setpoints}
        limits == ((MINHEIGHT - Probe)..(MINHEIGHT + 1))
                  \cup ((MAXHEIGHT - 1)..(MAXHEIGHT + Probe))
    IN  {d \in around \cup limits : d >= 0}

----------------------------------------------------------------------------
(* State.                                                                  *)

VARIABLES
    setpoint,        \* CANModule::setpoint
    rxdata0,         \* CANModule::rxdata[0]
    rxRTR,           \* remote-request bit of CANModule::RxID (0x40000000)
    txdata0,         \* CANModule::txdata[0]
    label,           \* floor label on line 0 of the LCD
    m_dist,          \* ElevatorController::m_dist
    m_currentFloor,  \* ElevatorController::m_currentFloor
    flagRecv,        \* set by the INT_PIN interrupt
    flagTx,          \* set by the timer1 compare interrupt
    pc,              \* position of the main loop
    dacOut,          \* last value handed to DM.transferDAC
    sndStat,         \* result of sendMsgBuf in the current pass of the loop
    rxGot,           \* whether the current pass has serviced a received frame
    floor0,          \* m_currentFloor when the current pass began
    nRecv,           \* calls of receiveCAN in the current pass
    nSend,           \* calls of sendMsgBuf in the current pass
    nSample,         \* calls of sensor.getDistance in the current pass
    nDac,            \* calls of DM.transferDAC in the current pass
    sigRecv,         \* message-pending interrupts since setup
    sigTx,           \* timer interrupts since setup
    svcRecv,         \* calls of receiveCAN since setup
    svcTx            \* calls of sendMsgBuf since setup

\* the calls counted within one pass of loop
passCnt == <<nRecv, nSend, nSample, nDac>>

\* the counts since setup; only SpecCount lets them run
totals == <<sigRecv, sigTx, svcRecv, svcTx>>

vars == <<setpoint, rxdata0, rxRTR, txdata0, label, m_dist, m_currentFloor,
          flagRecv, flagTx, pc, dacOut, sndStat, rxGot, floor0,
          nRecv, nSend, nSample, nDac, sigRecv, sigTx, svcRecv, svcTx>>

\* ElevatorController::setup, lines 144-168
Init ==
    /\ setpoint = FLOOR1_SP
    /\ txdata0 = FLOOR1
    /\ label = "Floor 1"
    /\ m_currentFloor = Unknown
    /\ flagRecv = FALSE
    /\ flagTx = FALSE
    /\ rxdata0 \in Bytes          \* not written before the first frame
    /\ rxRTR = FALSE
    /\ m_dist = 0
    /\ dacOut = 0
    /\ sndStat = "none"
    /\ rxGot = FALSE
    /\ floor0 = Unknown
    /\ nRecv = 0 /\ nSend = 0 /\ nSample = 0 /\ nDac = 0
    /\ sigRecv = 0 /\ sigTx = 0 /\ svcRecv = 0 /\ svcTx = 0
    /\ pc = "recv"

----------------------------------------------------------------------------
(* Interrupts.  The actions of this and the next section say nothing about *)
(* the counts since setup; Next and NextCount add that part.               *)

\* INT_PIN interrupt: the MCP2515 holds a received frame
IsrRecv ==
    /\ flagRecv' = TRUE
    /\ UNCHANGED <<setpoint, rxdata0, rxRTR, txdata0, label, m_dist,
                   m_currentFloor, flagTx, pc, dacOut, sndStat, rxGot, floor0>>
    /\ UNCHANGED passCnt

\* TIMER1_COMPA interrupt: transmit tick
IsrTimer ==
    /\ flagTx' = TRUE
    /\ UNCHANGED <<setpoint, rxdata0, rxRTR, txdata0, label, m_dist,
                   m_currentFloor, flagRecv, pc, dacOut, sndStat, rxGot, floor0>>
    /\ UNCHANGED passCnt

----------------------------------------------------------------------------
(* ElevatorController::loop, lines 170-186.                                *)

\* variant of CheckRecv that calls receiveCAN in every pass
CheckRecvAlways ==
    /\ pc = "recv"
    /\ floor0' = m_currentFloor
    /\ rxGot' = FALSE
    /\ sndStat' = "none"
    /\ nRecv' = 0 /\ nSend' = 0 /\ nSample' = 0 /\ nDac' = 0
    /\ flagRecv' = FALSE /\ pc' = "recvCall"
    /\ UNCHANGED <<setpoint, rxdata0, rxRTR, txdata0, label, m_dist,
                   m_currentFloor, flagTx, dacOut>>

\* line 172, flag clear: line 173
CheckRecv ==
    /\ pc = "recv"
    /\ floor0' = m_currentFloor
    /\ rxGot' = FALSE
    /\ sndStat' = "none"
    /\ nRecv' = 0 /\ nSend' = 0 /\ nSample' = 0 /\ nDac' = 0
    /\ IF flagRecv
       THEN flagRecv' = FALSE /\ pc' = "recvCall"
       ELSE flagRecv' = flagRecv /\ pc' = "tx"
    /\ UNCHANGED <<setpoint, rxdata0, rxRTR, txdata0, label, m_dist,
                   m_currentFloor, flagTx, dacOut>>

\* variant of NewSetpoint in which an unknown command selects floor 1
NewSetpointDefault(b, old) == IF b \in FloorCodes THEN SetpointOf(b) ELSE FLOOR1_SP

\* variant of NewSetpoint in which an unknown command clears the setpoint
NewSetpointCleared(b, old) == IF b \in FloorCodes THEN SetpointOf(b) ELSE 0

\* the setpoint receiveCAN leaves for first data byte b, lines 83-97
NewSetpoint(b, old) == IF b \in FloorCodes THEN SetpointOf(b) ELSE old

\* variant of NewLabel in which an unknown command blanks the label
NewLabelBlank(b, old) == IF b \in FloorCodes THEN LabelOf(b) ELSE "       "

\* the label receiveCAN leaves for first data byte b, lines 83-97
NewLabel(b, old) == IF b \in FloorCodes THEN LabelOf(b) ELSE old

\* variant of ReceiveCAN for a loop that resets flagRecv after the call
ReceiveCANClearAfter ==
    /\ pc = "recvCall"
    /\ \E rtr \in BOOLEAN, n \in 0..MaxLen, b \in Bytes :
         LET byte0 == IF n = 0 THEN rxdata0 ELSE b IN
         /\ rxRTR' = rtr
         /\ rxdata0' = byte0
         /\ setpoint' = NewSetpoint(byte0, setpoint)
         /\ label' = NewLabel(byte0, label)
    /\ rxGot' = TRUE
    /\ nRecv' = nRecv + 1
    /\ flagRecv' = FALSE
    /\ pc' = "tx"
    /\ UNCHANGED <<txdata0, m_dist, m_currentFloor, flagTx, dacOut,
                   sndStat, floor0, nSend, nSample, nDac>>

\* CANModule::receiveCAN, lines 59-98. readMsgBuf stores the envelope and
\* the first len data bytes; rxdata[0] keeps its old value when len = 0.
ReceiveCAN ==
    /\ pc = "recvCall"
    /\ \E rtr \in BOOLEAN, n \in 0..MaxLen, b \in Bytes :
         LET byte0 == IF n = 0 THEN rxdata0 ELSE b IN
         /\ rxRTR' = rtr
         /\ rxdata0' = byte0
         /\ setpoint' = NewSetpoint(byte0, setpoint)
         /\ label' = NewLabel(byte0, label)
    /\ rxGot' = TRUE
    /\ nRecv' = nRecv + 1
    /\ pc' = "tx"
    /\ UNCHANGED <<txdata0, m_dist, m_currentFloor, flagRecv, flagTx, dacOut,
                   sndStat, floor0, nSend, nSample, nDac>>

\* variant of TxPayload that sends the payload loaded by setup
TxPayloadDefault == txdata0

\* line 180: the payload is the current floor
TxPayload == m_currentFloor

\* variant of CheckTx that drops the tick while the floor is still Unknown
CheckTxSkipUnknown ==
    /\ pc = "tx"
    /\ IF flagTx /\ m_currentFloor # Unknown
       THEN flagTx' = FALSE /\ txdata0' = TxPayload /\ pc' = "txCall"
       ELSE flagTx' = FALSE /\ txdata0' = txdata0 /\ pc' = "move"
    /\ UNCHANGED <<setpoint, rxdata0, rxRTR, label, m_dist, m_currentFloor,
                   flagRecv, dacOut, sndStat, rxGot, floor0>>
    /\ UNCHANGED passCnt

\* line 178, flag clear and payload load: lines 179-180
CheckTx ==
    /\ pc = "tx"
    /\ IF flagTx
       THEN flagTx' = FALSE /\ txdata0' = TxPayload /\ pc' = "txCall"
       ELSE flagTx' = flagTx /\ txdata0' = txdata0 /\ pc' = "move"
    /\ UNCHANGED <<setpoint, rxdata0, rxRTR, label, m_dist, m_currentFloor,
                   flagRecv, dacOut, sndStat, rxGot, floor0>>
    /\ UNCHANGED passCnt

\* variant of TransmitCAN that sends again after an error
TransmitCANRetry ==
    /\ pc = "txCall"
    /\ sndStat' \in {"ok", "error"}
    /\ nSend' = nSend + 1
    /\ pc' = IF sndStat' = "error" THEN "txCall" ELSE "move"
    /\ UNCHANGED <<setpoint, rxdata0, rxRTR, txdata0, label, m_dist,
                   m_currentFloor, flagRecv, flagTx, dacOut, rxGot, floor0,
                   nRecv, nSample, nDac>>

\* CANModule::transmitCAN, lines 47-56: txdata[0] goes to sendMsgBuf once,
\* the result only selects the log text
TransmitCAN ==
    /\ pc = "txCall"
    /\ sndStat' \in {"ok", "error"}
    /\ nSend' = nSend + 1
    /\ pc' = "move"
    /\ UNCHANGED <<setpoint, rxdata0, rxRTR, txdata0, label, m_dist,
                   m_currentFloor, flagRecv, flagTx, dacOut, rxGot, floor0,
                   nRecv, nSample, nDac>>

\* variant of UsedReading that takes m_dist before the new sample is stored
UsedReadingStale(d) == m_dist

\* lines 219-228: the command is computed from m_dist, which holds the
\* sample d just stored
UsedReading(d) == d

\* variant of MoveArg that passes the default setpoint of setup
MoveArgDefault == FLOOR1_SP

\* line 184: the argument of Move is CM.getSetpoint()
MoveArg == setpoint

\* ElevatorController::Move, lines 215-251: one getDistance (line 219) and
\* one transferDAC in either branch (lines 246, 249)
MoveOn(readings) ==
    /\ pc = "move"
    /\ \E d \in readings :
         /\ m_dist' = d
         /\ dacOut' = DriveCommand(UsedReading(d), MoveArg)
    /\ nSample' = nSample + 1
    /\ nDac' = nDac + 1
    /\ pc' = "check"
    /\ UNCHANGED <<setpoint, rxdata0, rxRTR, txdata0, label, m_currentFloor,
                   flagRecv, flagTx, sndStat, rxGot, floor0, nRecv, nSend>>

\* Move with the sensor returning any of the readings of the model
Move == MoveOn(Samples)

\* line 185: checkCurrentFloor()
CheckCurrentFloor ==
    /\ pc = "check"
    /\ m_currentFloor' = EstimateFloor(m_dist, m_currentFloor)
    /\ pc' = "recv"
    /\ UNCHANGED <<setpoint, rxdata0, rxRTR, txdata0, label, m_dist,
                   flagRecv, flagTx, dacOut, sndStat, rxGot, floor0>>
    /\ UNCHANGED passCnt

Next ==
    \/ IsrRecv /\ UNCHANGED totals
    \/ IsrTimer /\ UNCHANGED totals
    \/ CheckRecv /\ UNCHANGED totals
    \/ ReceiveCAN /\ UNCHANGED totals
    \/ CheckTx /\ UNCHANGED totals
    \/ TransmitCAN /\ UNCHANGED totals
    \/ Move /\ UNCHANGED totals
    \/ CheckCurrentFloor /\ UNCHANGED totals

Spec == Init /\ [][Next]_vars

----------------------------------------------------------------------------
(* The same program with the interrupts and the servicing calls counted    *)
(* since setup.  To keep the counts finite at most MaxSignals interrupts   *)
(* of each kind occur, and the sensor readings are limited to two.         *)

\* one reading out of range and one inside a floor band
CountSamples == {MINHEIGHT - 1, FLOOR1_SP + SETPOINT_TOLERANCE}

IsrRecvCounted ==
    /\ sigRecv < MaxSignals
    /\ IsrRecv
    /\ sigRecv' = sigRecv + 1
    /\ UNCHANGED <<sigTx, svcRecv, svcTx>>

IsrTimerCounted ==
    /\ sigTx < MaxSignals
    /\ IsrTimer
    /\ sigTx' = sigTx + 1
    /\ UNCHANGED <<sigRecv, svcRecv, svcTx>>

ReceiveCANCounted ==
    /\ ReceiveCAN
    /\ svcRecv' = svcRecv + 1
    /\ UNCHANGED <<sigRecv, sigTx, svcTx>>

TransmitCANCounted ==
    /\ TransmitCAN
    /\ svcTx' = svcTx + 1
    /\ UNCHANGED <<sigRecv, sigTx, svcRecv>>

MoveCounted ==
    /\ MoveOn(CountSamples)
    /\ UNCHANGED totals

\* one step of the main program
LoopStepCounted ==
    \/ CheckRecv /\ UNCHANGED totals
    \/ ReceiveCANCounted
    \/ CheckTx /\ UNCHANGED totals
    \/ TransmitCANCounted
    \/ MoveCounted
    \/ CheckCurrentFloor /\ UNCHANGED totals

NextCount ==
    \/ IsrRecvCounted
    \/ IsrTimerCounted
    \/ LoopStepCounted

SpecCount == Init /\ [][NextCount]_vars

\* loop() is called again and again (Arduino main) and every call it makes
\* returns, so the main program keeps taking steps; the interrupts may or
\* may not occur
FairSpec == SpecCount /\ WF_vars(LoopStepCounted)

----------------------------------------------------------------------------
(* Properties.  Move has written the drive command of the current pass     *)
(* when pc = "check"; checkCurrentFloor has run when pc is back at "recv". *)

\* the reading of the current pass lies outside [MINHEIGHT, MAXHEIGHT]
OutOfRange == m_dist < MINHEIGHT \/ m_dist > MAXHEIGHT

\* the reading of the current pass lies inside [MINHEIGHT, MAXHEIGHT]
WithinRange == m_dist >= MINHEIGHT /\ m_dist <= MAXHEIGHT

\* C1: whenever the distance sampled by Move is below MINHEIGHT or above
\* MAXHEIGHT, the drive command written in that pass is 0, for every setpoint.
C1_OutOfRangeStops ==
    (pc = "check" /\ OutOfRange) => dacOut = 0

C1_Witness ==
    /\ pc = "check"
    /\ m_dist > MAXHEIGHT
    /\ setpoint = FLOOR2_SP
    /\ dacOut = 0

\* C2: for every sampled distance within [MINHEIGHT, MAXHEIGHT] and every
\* setpoint, the drive command written by Move has absolute value at most
\* DAC_MAX (1023), in the positive and in the negative direction.
C2_DriveWithinDacRange ==
    (pc = "check" /\ WithinRange) => Abs(dacOut) <= DAC_MAX

\* C3: servicing a received remote request frame leaves Setpoint as it was,
\* whatever the receive buffer holds.
C3_RemoteFrameKeepsSetpoint ==
    [][(pc = "recvCall" /\ pc' = "tx" /\ rxRTR') => setpoint' = setpoint]_vars

\* C4: in every reachable state Setpoint is one of FLOOR1_SP, FLOOR2_SP,
\* FLOOR3_SP, whatever payloads, ticks and sensor readings have occurred.
C4_SetpointIsFloorSetpoint ==
    setpoint \in Setpoints

C4_Witness ==
    /\ rxGot
    /\ rxdata0 \in OtherBytes
    /\ setpoint = FLOOR3_SP
    /\ pc = "check"

\* C5: every payload sent on the bus is one of FLOOR1, FLOOR2, FLOOR3, also
\* when the transmit tick is serviced before any floor band has matched.
C5_SentPayloadIsFloorCode ==
    sndStat = "ok" => txdata0 \in FloorCodes

\* C6: when receive servicing reads a known floor code f it sets Setpoint to
\* f's setpoint and the label to f's label before transmit servicing, and the
\* Move of the same pass computes its command against that setpoint, before
\* the floor is re-estimated.
C6_KnownCommandDrivesSamePass ==
    (rxGot /\ rxdata0 \in FloorCodes /\ pc # "recv") =>
        /\ setpoint = SetpointOf(rxdata0)
        /\ label = LabelOf(rxdata0)
        /\ m_currentFloor = floor0
        /\ pc = "check" => dacOut = DriveCommand(m_dist, SetpointOf(rxdata0))

C6_Witness ==
    /\ pc = "check"
    /\ rxGot
    /\ rxdata0 = FLOOR2
    /\ setpoint = FLOOR2_SP
    /\ label = "Floor 2"
    /\ sndStat = "ok"
    /\ dacOut = DriveCommand(m_dist, FLOOR2_SP)
    /\ dacOut # DriveCommand(m_dist, FLOOR1_SP)
    /\ dacOut # DriveCommand(m_dist, FLOOR3_SP)

\* C7: when the byte receive servicing examines is none of FLOOR1, FLOOR2,
\* FLOOR3, the servicing leaves Setpoint, the floor label and CurrentFloor
\* unchanged.
C7_UnknownCommandIgnored ==
    [][(pc = "recvCall" /\ pc' = "tx" /\ rxdata0' \notin FloorCodes) =>
          /\ setpoint' = setpoint
          /\ label' = label
          /\ m_currentFloor' = m_currentFloor]_vars

C7_Witness ==
    /\ pc = "tx"
    /\ rxGot
    /\ rxdata0 \in OtherBytes
    /\ setpoint = FLOOR2_SP
    /\ label = "Floor 2"
    /\ m_currentFloor = FLOOR3

\* C8: for every in-range reading d and setpoint s with
\* abs(d - s) <= SETPOINT_TOLERANCE the drive command written by Move is 0.
C8_DeadBandStops ==
    (pc = "check" /\ WithinRange /\ Abs(m_dist - setpoint) <= SETPOINT_TOLERANCE)
        => dacOut = 0

C8_Witness ==
    /\ pc = "check"
    /\ setpoint = FLOOR3_SP
    /\ m_dist = FLOOR3_SP - SETPOINT_TOLERANCE
    /\ dacOut = 0

\* C9: once CurrentFloor is a floor code it stays a floor code in every
\* later state; it never returns to Unknown.
C9_FloorNeverBackToUnknown ==
    [][(m_currentFloor \in FloorCodes) => (m_currentFloor' \in FloorCodes)]_vars

C9_Witness ==
    /\ pc = "recv"
    /\ floor0 = FLOOR2
    /\ m_currentFloor = FLOOR2
    /\ ~ InBand(m_dist, FLOOR1_SP)
    /\ ~ InBand(m_dist, FLOOR2_SP)
    /\ ~ InBand(m_dist, FLOOR3_SP)
    /\ WithinRange

Priority == <<FLOOR1, FLOOR2, FLOOR3>>

\* the floors whose band setpoint +/- (SETPOINT_TOLERANCE + MARGIN), ends
\* included, contains reading d, as positions in Priority
Hits(d) ==
    {i \in 1..Len(Priority) :
        LET sp == SetpointOf(Priority[i]) IN
        d \in (sp - (SETPOINT_TOLERANCE + MARGIN))..(sp + (SETPOINT_TOLERANCE + MARGIN))}

\* C11: floor estimation yields, for every reading and every previous floor
\* (Unknown included), the first floor in the order FLOOR1, FLOOR2, FLOOR3
\* whose band contains the reading, ends included, and the previous floor
\* when no band contains it.
C11_EstimateFirstBandOrPrevious ==
    pc = "recv" =>
        IF Hits(m_dist) = {}
        THEN m_currentFloor = floor0
        ELSE \E i \in Hits(m_dist) :
                /\ m_currentFloor = Priority[i]
                /\ \A j \in Hits(m_dist) : i <= j

C11_Witness ==
    /\ pc = "recv"
    /\ m_dist = FLOOR2_SP + SETPOINT_TOLERANCE + MARGIN
    /\ floor0 = FLOOR3
    /\ m_currentFloor = FLOOR2

\* C12: while the main loop keeps running, every raised transmit tick is
\* followed by a send attempt and every raised message-pending signal by a
\* receive servicing; a tick raised in a pass whose send failed is followed
\* by another send attempt.
C12_SignalsAreServiced ==
    /\ flagTx ~> (pc = "txCall")
    /\ flagRecv ~> (pc = "recvCall")
    /\ (sndStat = "error" /\ flagTx) ~> (pc = "txCall")

C12_Witness ==
    /\ sndStat = "error"
    /\ flagTx
    /\ flagRecv
    /\ pc = "check"

\* C13: a send that returns an error changes nothing else: the step that
\* records the error leaves Setpoint, CurrentFloor and both pending flags as
\* they were and goes on to Move; the transmit flag rises again only by a
\* timer tick; the pass holds exactly one send attempt and then samples,
\* drives and re-estimates the floor as in any other pass.
C13_FailedSendChangesNothing ==
    /\ [][(sndStat = "none" /\ sndStat' = "error") =>
            (/\ pc = "txCall"
             /\ pc' = "move"
             /\ nSend' = 1
             /\ UNCHANGED <<setpoint, m_currentFloor, flagRecv, flagTx>>)]_vars
    /\ [][((~flagTx) /\ flagTx') => UNCHANGED <<pc, sndStat, nSend>>]_vars
    /\ [](sndStat = "error" =>
            /\ nSend = 1
            /\ \/ pc = "move" /\ nSample = 0 /\ nDac = 0
               \/ pc = "check" /\ nSample = 1 /\ nDac = 1
               \/ /\ pc = "recv"
                  /\ nSample = 1
                  /\ nDac = 1
                  /\ m_currentFloor = EstimateFloor(m_dist, floor0))

C13_Witness ==
    /\ sndStat = "error"
    /\ pc = "recv"
    /\ ~flagTx
    /\ floor0 = FLOOR1
    /\ m_currentFloor = FLOOR2

\* the command lines 228-243 compute from reading d and setpoint sp
Computed(d, sp) == Clamp(Shape(DeadBand(ToInt16(d - sp))))

\* C14: after Move, the value written to the DAC is the computed command for
\* every reading d with MINHEIGHT <= d <= MAXHEIGHT, both ends included, and
\* the stop value 0 only for a reading strictly outside that interval.
C14_ClosedRangeIsValid ==
    pc = "check" =>
        dacOut = IF WithinRange THEN Computed(m_dist, setpoint) ELSE 0

\* C15: every pass of the loop takes exactly one distance sample and makes
\* exactly one DAC write, none of them before the Move step, and the value
\* written is the command for the sample of this pass and the setpoint Move
\* was called with.
C15_OneSampleOneCommandPerPass ==
    /\ pc \in {"recvCall", "tx", "txCall", "move"} => nSample = 0 /\ nDac = 0
    /\ pc = "check" =>
        /\ nSample = 1
        /\ nDac = 1
        /\ dacOut = DriveCommand(m_dist, setpoint)
    /\ pc = "recv" =>
        /\ nSample = nDac
        /\ nSample <= 1
        /\ nSample = 1 => dacOut = DriveCommand(m_dist, setpoint)

C15_Witness ==
    /\ pc = "check"
    /\ nSample = 1
    /\ nDac = 1
    /\ rxGot
    /\ setpoint = FLOOR3_SP
    /\ m_dist = FLOOR3_SP - SETPOINT_TOLERANCE - 1
    /\ dacOut # 0

\* C16: the setpoint changes only in the step that services a received frame
\* whose first data byte is a known floor code, and then to that floor's
\* setpoint; the ISRs, the flag tests, the send, Move and the floor estimate
\* leave it alone.
C16_SetpointChangesOnlyOnKnownCommand ==
    [][(setpoint' # setpoint) =>
        (/\ pc = "recvCall"
         /\ pc' = "tx"
         /\ rxdata0' \in FloorCodes
         /\ setpoint' = SetpointOf(rxdata0'))]_vars

C16_Witness ==
    /\ pc = "tx"
    /\ rxGot
    /\ rxdata0 = FLOOR3
    /\ setpoint = FLOOR3_SP
    /\ floor0 = FLOOR1

\* C17: a pending flag falls only in the flag test that starts its servicing,
\* before the call; a flag that is set while the receive or send call is in
\* progress is still set when the call returns, and that signal then reaches
\* the next flag test with the flag set and is serviced from there.
C17_SignalDuringCallIsKept ==
    /\ [][(flagRecv /\ ~flagRecv') => (pc = "recv" /\ pc' = "recvCall")]_vars
    /\ [][(flagTx /\ ~flagTx') => (pc = "tx" /\ pc' = "txCall")]_vars
    /\ [][(pc = "recvCall" /\ flagRecv /\ pc' # pc) => flagRecv']_vars
    /\ [][(pc = "txCall" /\ flagTx /\ pc' # pc) => flagTx']_vars
    /\ (pc = "recvCall" /\ flagRecv) ~> (pc = "recv" /\ flagRecv)
    /\ (pc = "recv" /\ flagRecv) ~> (pc = "recvCall")
    /\ (pc = "txCall" /\ flagTx) ~> (pc = "tx" /\ flagTx)
    /\ (pc = "tx" /\ flagTx) ~> (pc = "txCall")

C17_Witness ==
    /\ pc = "tx"
    /\ rxGot
    /\ flagRecv
    /\ sigRecv = 2
    /\ svcRecv = 1

\* C18: counted from setup, receive servicings never exceed the
\* message-pending signals raised and send attempts never exceed the timer
\* ticks raised, and a pass holds at most one receive and one send.
C18_ServicingsBoundedBySignals ==
    /\ svcRecv <= sigRecv
    /\ svcTx <= sigTx
    /\ nRecv <= 1
    /\ nSend <= 1

\* two message-pending signals and two ticks, one servicing each, nothing
\* left pending
C18_Witness ==
    /\ pc = "recv"
    /\ sigRecv = 2
    /\ svcRecv = 1
    /\ ~flagRecv
    /\ sigTx = 2
    /\ svcTx = 1
    /\ ~flagTx

\* C19: the payload handed to the bus in a pass is the floor held when the
\* pass began, Unknown included, whatever floor the sample of that pass
\* yields afterwards.
C19_PayloadIsFloorAtPassStart ==
    (pc = "txCall" \/ sndStat # "none") => txdata0 = floor0

C19_Witness ==
    /\ pc = "recv"
    /\ sndStat = "ok"
    /\ floor0 = FLOOR1
    /\ txdata0 = FLOOR1
    /\ m_currentFloor = FLOOR3

====
